---------------------------- MODULE Spec2Model ----------------------------
(***************************************************************************)
(* luax: the AST of a Lua-like language (src/src/ast.rs), its used-variable *)
(* analysis, and the lowering of that AST to basic blocks of opcodes        *)
(* (src/src/ast_codegen.rs).                                                *)
(*                                                                          *)
(* An AST node is a record [tag, kids, v]: tag is the enum variant, kids    *)
(* the variant's fields in declaration order, v its string/number/bool      *)
(* payload.  A Vec, an Option and a tuple field are nodes of their own      *)
(* ("Vec", "Some"/"None", "Tuple").                                         *)
(***************************************************************************)
EXTENDS Naturals, Integers, Sequences, FiniteSets, TLC

VARIABLES
    cg,     \* the code generation context (module builder, function builder, call trace)
    prev,   \* cg as it was when the last lowering call started
    last,   \* the AST node handed to the last operation
    n,      \* number of steps taken (statements lowered / wrapping depth)
    uv,     \* result of the last get_used_vars call
    pc      \* "build": last is still being put together; "done": the call on last returned

vars == <<cg, prev, last, n, uv, pc>>

(***************************************************************************)
(* Bounds                                                                   *)
(***************************************************************************)
MaxStmts == 2      \* top-level statements lowered into one function builder
MaxDepth == 2      \* wrapping depth of the expressions handed to restricted lowering
MaxUVDepth == 2    \* wrapping depth of the nodes handed to get_used_vars

(***************************************************************************)
(* AST (src/src/ast.rs)                                                     *)
(***************************************************************************)
Node(tag, kids) == [tag |-> tag, kids |-> kids, v |-> ""]
Leaf(tag, v) == [tag |-> tag, kids |-> <<>>, v |-> v]
Vec(items) == Node("Vec", items)
Tuple(l, r) == Node("Tuple", <<l, r>>)
Some(x) == Node("Some", <<x>>)
None == Node("None", <<>>)

\* enum Block
Block(stmts) == Node("Block", <<Vec(stmts)>>)
statements(blk) == blk.kids[1].kids

\* enum Lhs
LhsId(id) == Leaf("LhsId", id)
LhsIndex(target, index) == Node("LhsIndex", <<target, index>>)

\* enum Expr
Nil == Node("Nil", <<>>)
Dots == Node("Dots", <<>>)
Boolean(b) == Leaf("Boolean", b)
Number(x) == Leaf("Number", x)
String(s) == Leaf("String", s)
Function(vlhs, blk) == Node("Function", <<Vec(vlhs), blk>>)
Table(elems) == Node("Table", <<Vec(elems)>>)
Binary(op, left, right) == Node(op, <<left, right>>)
Not(e) == Node("Not", <<e>>)
Call(target, args) == Node("Call", <<target, Vec(args)>>)
Pair(left, right) == Node("Pair", <<left, right>>)
Id(k) == Leaf("Id", k)
Index(target, index) == Node("Index", <<target, index>>)

\* enum Stmt
Do(stmts) == Node("Do", <<Vec(stmts)>>)
Set(lhs, exprs) == Node("Set", <<Vec(lhs), Vec(exprs)>>)
While(e, blk) == Node("While", <<e, blk>>)
Repeat(blk, e) == Node("Repeat", <<blk, e>>)
If(conds, els) == Node("If", <<Vec(conds), els>>)
Fornum(var, start, stop, step, blk) == Node("Fornum", <<var, start, stop, step, blk>>)
Forin(vlhs, exprs, blk) == Node("Forin", <<Vec(vlhs), Vec(exprs), blk>>)
Local(lhs, exprs) == Node("Local", <<Vec(lhs), Vec(exprs)>>)
Localrec(lhs, e) == Node("Localrec", <<lhs, e>>)
Goto(s) == Leaf("Goto", s)
Label(s) == Leaf("Label", s)
Return(exprs) == Node("Return", <<Vec(exprs)>>)
Break == Node("Break", <<>>)
CallStmt(target, args) == Node("CallStmt", <<target, Vec(args)>>)

\* The arithmetic, comparison and concatenation variants of Expr: two boxed operands each.
ArithTags == <<"Add", "Sub", "Mul", "Div", "Idiv", "Mod", "Pow", "Concat",
               "Eq", "Ne", "Lt", "Gt", "Le", "Ge">>
Range(f) == {f[i] : i \in DOMAIN f}
ExprTags == Range(ArithTags) \cup {"Nil", "Dots", "Boolean", "Number", "String", "Function",
                                   "Table", "Not", "Call", "Pair", "Id", "Index"}
StmtTags == {"Do", "Set", "While", "Repeat", "If", "Fornum", "Forin", "Local", "Localrec",
             "Goto", "Label", "Return", "Break", "CallStmt"}

(***************************************************************************)
(* Used-variable analysis (src/src/ast.rs, trait GetUsedVars)               *)
(***************************************************************************)
RECURSIVE get_used_vars(_)
RECURSIVE vec_get_used_vars(_, _)

\* macro concat_vec!
concat_vec(left, right) == left \o right

\* The body of every `impl GetUsedVars for Vec<..>`: extend ret with each item in turn.
vec_get_used_vars(items, i) ==
    IF i > Len(items) THEN <<>>
    ELSE concat_vec(get_used_vars(items[i]), vec_get_used_vars(items, i + 1))

\* macro pair_get_used_vars!
pair_get_used_vars(left, right) == concat_vec(get_used_vars(left), get_used_vars(right))

\* impl GetUsedVars for Lhs
lhs_get_used_vars(x) ==
    IF x.tag = "LhsId" THEN <<x.v>>
    ELSE concat_vec(get_used_vars(x.kids[1]), get_used_vars(x.kids[2]))

\* impl GetUsedVars for Stmt
stmt_get_used_vars(x) ==
    CASE x.tag = "Do" -> get_used_vars(x.kids[1])
      [] x.tag \in {"Set", "While", "Repeat", "If", "Local", "Localrec", "CallStmt"} ->
            pair_get_used_vars(x.kids[1], x.kids[2])
      [] x.tag = "Fornum" ->
            concat_vec(pair_get_used_vars(x.kids[1], x.kids[2]),
                       concat_vec(pair_get_used_vars(x.kids[3], x.kids[4]),
                                  get_used_vars(x.kids[5])))
      [] x.tag = "Forin" ->
            concat_vec(pair_get_used_vars(x.kids[1], x.kids[2]), get_used_vars(x.kids[3]))
      [] x.tag \in {"Goto", "Label", "Break"} -> <<>>
      [] x.tag = "Return" -> get_used_vars(x.kids[1])

\* The Function arm computing free variables: the body's names minus the parameters.
RECURSIVE Without(_, _)
Without(names, bound) ==
    IF names = <<>> THEN <<>>
    ELSE (IF \E k \in 1..Len(bound) : bound[k] = names[1] THEN <<>> ELSE <<names[1]>>)
         \o Without(SubSeq(names, 2, Len(names)), bound)

FunctionUsedVars_Free(x) == Without(get_used_vars(x.kids[2]), get_used_vars(x.kids[1]))

\* impl GetUsedVars for Expr
FunctionUsedVars(x) == pair_get_used_vars(x.kids[1], x.kids[2])

expr_get_used_vars(x) ==
    CASE x.tag \in {"Nil", "Dots", "Boolean", "Number", "String"} -> <<>>
      [] x.tag = "Function" -> FunctionUsedVars(x)
      [] x.tag = "Table" -> get_used_vars(x.kids[1])
      [] x.tag \in Range(ArithTags) -> pair_get_used_vars(x.kids[1], x.kids[2])
      [] x.tag = "Not" -> get_used_vars(x.kids[1])
      [] x.tag \in {"Call", "Pair"} -> pair_get_used_vars(x.kids[1], x.kids[2])
      [] x.tag = "Id" -> <<x.v>>
      [] x.tag = "Index" -> pair_get_used_vars(x.kids[1], x.kids[2])

\* get_used_vars, dispatched on the type of the receiver.
get_used_vars(x) ==
    CASE x.tag \in StmtTags -> stmt_get_used_vars(x)
      [] x.tag \in ExprTags -> expr_get_used_vars(x)
      [] x.tag \in {"LhsId", "LhsIndex"} -> lhs_get_used_vars(x)
      [] x.tag = "Block" -> get_used_vars(Vec(statements(x)))
      [] x.tag = "Vec" -> vec_get_used_vars(x.kids, 1)
      [] x.tag = "Tuple" -> concat_vec(get_used_vars(x.kids[1]), get_used_vars(x.kids[2]))
      [] x.tag = "Some" -> get_used_vars(x.kids[1])
      [] x.tag = "None" -> <<>>

(***************************************************************************)
(* Opcodes (hexagon_vm_core::opcode::OpCode as used by ast_codegen.rs)      *)
(***************************************************************************)
Op(name) == [op |-> name, a |-> 0, b |-> 0, s |-> ""]
OpA(name, a) == [op |-> name, a |-> a, b |-> 0, s |-> ""]
OpAB(name, a, b) == [op |-> name, a |-> a, b |-> b, s |-> ""]
OpS(name, s) == [op |-> name, a |-> 0, b |-> 0, s |-> s]
NoOp == Op("")
NoNode == Node("", <<>>)

\* The operator opcode pushed by each arithmetic/comparison arm (Concat goes
\* through write_concat).
ArithOpCode(tag) ==
    CASE tag = "Add" -> "Add" [] tag = "Sub" -> "Sub" [] tag = "Mul" -> "Mul"
      [] tag = "Div" -> "Div" [] tag = "Idiv" -> "IntDiv" [] tag = "Mod" -> "Mod"
      [] tag = "Pow" -> "Pow" [] tag = "Concat" -> "Concat"
      [] tag = "Eq" -> "TestEq" [] tag = "Ne" -> "TestNe" [] tag = "Lt" -> "TestLt"
      [] tag = "Gt" -> "TestGt" [] tag = "Le" -> "TestLe" [] tag = "Ge" -> "TestGe"

(***************************************************************************)
(* Builders (module codegen: ModuleBuilder, FunctionBuilder).  The context  *)
(* c holds the function builder being written to (fb), the builders of the  *)
(* enclosing functions (outer), the module's function table (functions),    *)
(* the result of the call in progress (err, "" for Ok) and log: the         *)
(* sequence of builder calls made so far, with a marker where each lowering *)
(* call starts, returns, or constructs an error.                            *)
(***************************************************************************)
NewFunctionBuilder(id) ==
    [id |-> id, basic_blocks |-> << <<>> >>, current_basic_block |-> 0,
     scopes |-> << <<>> >>, lci_stack |-> <<>>, nlocals |-> 0]

NewContext ==
    [fb |-> NewFunctionBuilder(0), outer |-> <<>>, functions |-> <<>>, nbuilders |-> 1,
     log |-> <<>>, err |-> ""]

\* Number of opcodes in all the blocks of a function builder.
RECURSIVE CountOps(_, _)
CountOps(blocks, i) == IF i > Len(blocks) THEN 0 ELSE Len(blocks[i]) + CountOps(blocks, i + 1)

\* A log entry: what happened (ev), and the builder as it was then: which function (f),
\* its current block (cur), number of blocks (nbb), of opcodes (nops), of locals
\* (nlocals), its loop-control and scope stacks, the size of the function table (nfn).
\* of: for "exit", the index of the matching "enter"; ret: for "enter", of its "exit".
Snap(kind, c, node, bb, op, of) ==
    [ev |-> kind, f |-> c.fb.id, cur |-> c.fb.current_basic_block,
     nbb |-> Len(c.fb.basic_blocks), nops |-> CountOps(c.fb.basic_blocks, 1),
     nlocals |-> c.fb.nlocals, lci |-> c.fb.lci_stack, scopes |-> c.fb.scopes,
     nfn |-> Len(c.functions), node |-> node, bb |-> bb, op |-> op, of |-> of, ret |-> 0,
     err |-> c.err]

Log(c, e) == [c EXCEPT !.log = Append(@, e)]

Failed(c) == c.err # ""

\* `let v = x; Rest(v)`: x is worked out once, and Rest goes on with its value.
Bind(x, Rest(_)) == CHOOSE r \in {Rest(v) : v \in {x}} : TRUE

\* `let v = x?; Rest(v)`: an Err is returned at once, Rest goes on with an Ok.
Try(x, Rest(_)) == CHOOSE r \in {IF Failed(v) THEN v ELSE Rest(v) : v \in {x}} : TRUE

Event(kind, c, node, bb, op, of) == Bind(c, LAMBDA v : Snap(kind, v, node, bb, op, of))

\* Err("...".into()): the call returns a CodegenError.
Err(c, desc) ==
    LET c1 == [c EXCEPT !.err = desc] IN Log(c1, Event("error", c1, NoNode, 0, NoOp, 0))

LoopControlInfo(break_point, continue_point) ==
    [break_point |-> break_point, continue_point |-> continue_point]

\* fb.basic_blocks[bb].opcodes.push(op)   (block ids count from 0)
PushAt(c, bb, op) ==
    Log([c EXCEPT !.fb.basic_blocks[bb + 1] = Append(@, op)], Event("op", c, NoNode, bb, op, 0))

\* fb.get_current_bb().opcodes.push(op)
Push(c, op) == PushAt(c, c.fb.current_basic_block, op)

\* fb.move_forward(): start a new basic block and make it the current one.
move_forward(c) ==
    Log([c EXCEPT !.fb.basic_blocks = Append(@, <<>>),
                  !.fb.current_basic_block = Len(c.fb.basic_blocks)],
        Event("move_forward", c, NoNode, Len(c.fb.basic_blocks), NoOp, 0))

\* fb.scoped(f): f runs under a new lexical scope, popped when f returns.
scoped_enter(c) == [c EXCEPT !.fb.scopes = Append(@, <<>>)]
scoped_exit(c) == [c EXCEPT !.fb.scopes = SubSeq(@, 1, Len(@) - 1)]

\* fb.with_lci(lci, f): f runs under a new loop-control context, popped when f returns.
with_lci_enter(c, lci) == [c EXCEPT !.fb.lci_stack = Append(@, lci)]
with_lci_exit(c) == [c EXCEPT !.fb.lci_stack = SubSeq(@, 1, Len(@) - 1)]

\* Variable locations: a local slot of the function, a local of an enclosing
\* function (upvalue), or a field of the dynamic environment ("this").
VarLocal(slot) == [kind |-> "Local", slot |-> slot, name |-> ""]
VarUpvalue(depth, slot) == [kind |-> "Upvalue", slot |-> slot, name |-> ""]
VarThis(k) == [kind |-> "This", slot |-> 0, name |-> k]
NoLocation == [kind |-> "None", slot |-> 0, name |-> ""]

RECURSIVE FindInScope(_, _, _)
FindInScope(scope, k, i) ==
    IF i = 0 THEN NoLocation
    ELSE IF scope[i].name = k THEN VarLocal(scope[i].slot)
    ELSE FindInScope(scope, k, i - 1)

\* Innermost scope first, latest binding of a scope first.
RECURSIVE FindInScopes(_, _, _)
FindInScopes(scopes, k, i) ==
    IF i = 0 THEN NoLocation
    ELSE LET here == FindInScope(scopes[i], k, Len(scopes[i]))
         IN IF here.kind # "None" THEN here ELSE FindInScopes(scopes, k, i - 1)

RECURSIVE FindInOuter(_, _, _)
FindInOuter(outer, k, i) ==
    IF i = 0 THEN NoLocation
    ELSE LET here == FindInScopes(outer[i].scopes, k, Len(outer[i].scopes))
         IN IF here.kind # "None" THEN VarUpvalue(Len(outer) - i + 1, here.slot)
            ELSE FindInOuter(outer, k, i - 1)

\* ModuleBuilder::lookup_var: the function's own scopes, then the enclosing
\* functions'; NoLocation stands for Option::None.
lookup_var(c, k) ==
    LET here == FindInScopes(c.fb.scopes, k, Len(c.fb.scopes))
    IN IF here.kind # "None" THEN here ELSE FindInOuter(c.outer, k, Len(c.outer))

\* FunctionBuilder::get_var_location: as lookup_var, falling back to "this".
get_var_location(c, id) ==
    LET v == lookup_var(c, id) IN IF v.kind = "None" THEN VarThis(id) ELSE v

\* FunctionBuilder::create_local: a new slot bound to id in the innermost scope.
create_local(c, id) ==
    LET slot == c.fb.nlocals
        c1 == [c EXCEPT !.fb.nlocals = @ + 1,
                        !.fb.scopes[Len(c.fb.scopes)] = Append(@, [name |-> id, slot |-> slot])]
    IN Log(c1, Event("create_local", c1, LhsId(id), slot, NoOp, 0))

\* VarLocation::build_get / build_set: the load / store opcode of the location.
VarOp(prefix, loc) ==
    CASE loc.kind = "Local" -> OpA(prefix \o "Local", loc.slot)
      [] loc.kind = "Upvalue" -> OpA(prefix \o "Upvalue", loc.slot)
      [] loc.kind = "This" -> OpS(prefix \o "This", loc.name)
build_get(c, loc) == Push(c, VarOp("Load", loc))
build_set(c, loc) == Push(c, VarOp("Store", loc))

\* The write_* helpers of FunctionBuilder: one opcode each.
write_index_set(c) == Push(c, Op("IndexSet"))
write_index_get(c) == Push(c, Op("IndexGet"))
write_table_create(c) == Push(c, Op("TableCreate"))
write_table_set(c) == Push(c, Op("TableSet"))
write_concat(c) == Push(c, Op("Concat"))
write_pair_create(c) == Push(c, Op("PairCreate"))
write_function_load(c, fn_id) == Push(c, OpA("LoadFunction", fn_id))

\* ModuleBuilder::new_function: a fresh builder, child of the module; the
\* builder of the enclosing function is kept for upvalue resolution.
new_function(c) ==
    LET c1 == [c EXCEPT !.outer = Append(@, c.fb), !.fb = NewFunctionBuilder(c.nbuilders),
                        !.nbuilders = @ + 1]
    IN Log(c1, Event("new_function", c1, NoNode, 0, NoOp, 0))

\* Back in the enclosing function once new_builder is consumed or dropped.
leave_function(c) ==
    [c EXCEPT !.fb = c.outer[Len(c.outer)], !.outer = SubSeq(@, 1, Len(@) - 1)]

\* FunctionBuilder::build_args_load: the parameters become locals, in order.
RECURSIVE build_args_load(_, _, _)
build_args_load(c, arg_names, i) ==
    IF i > Len(arg_names) THEN c
    ELSE build_args_load(create_local(c, arg_names[i]), arg_names, i + 1)

\* The tail of FunctionBuilder::build, after the body is lowered: the function
\* enters the module's table and its slot (counted from 0) is the result.
register_function(c) ==
    LET c1 == [c EXCEPT !.functions = Append(@, [id |-> c.fb.id,
                                                  basic_blocks |-> c.fb.basic_blocks])]
    IN Log(c1, Event("build", c1, NoNode, Len(c.functions), NoOp, 0))

(***************************************************************************)
(* Lowering (src/src/ast_codegen.rs).  Each operator takes the AST node and *)
(* the context and yields the context the call leaves behind; c.err is the  *)
(* Result it returns.  `x?` is Try(x, LAMBDA v : what follows).             *)
(***************************************************************************)
RECURSIVE restricted_generate_code(_, _)
RECURSIVE unrestricted_generate_code(_, _)
RECURSIVE BlockStatements(_, _, _)
RECURSIVE SetPairs(_, _, _, _)
RECURSIVE LocalPairs(_, _, _, _)
RECURSIVE TableElems(_, _, _)
RECURSIVE CallArgs(_, _, _)

\* A lowering call starts on node x / returns from node x (of: where it started).
Enter(c, x) == Log(c, Event("enter", c, x, 0, NoOp, 0))
Exit(c, x, of) ==
    Bind(Log(c, Event("exit", c, x, 0, NoOp, of)),
         LAMBDA c1 : [c1 EXCEPT !.log[of].ret = Len(c1.log)])

\* BlockStatements going on with the next statement after a failed one.
BlockStatements_BestEffort(stmts, i, c) ==
    IF i > Len(stmts) THEN c
    ELSE Bind(unrestricted_generate_code(stmts[i], c),
              LAMBDA c1 : BlockStatements(stmts, i + 1, c1))

\* impl UnrestrictedGenerateCode for Block, and the loop of the Stmt::Do arm:
\* the statements in order, stopping at the first error.
BlockStatements(stmts, i, c) ==
    IF i > Len(stmts) THEN c
    ELSE Try(unrestricted_generate_code(stmts[i], c),
             LAMBDA c1 : BlockStatements(stmts, i + 1, c1))

block_unrestricted_generate_code(blk, c) == BlockStatements(statements(blk), 1, c)

\* lhs_build_set lowering the base of an index target before its key.
lhs_build_set_BaseFirst(x, c) ==
    IF x.tag = "LhsId"
    THEN build_set(c, get_var_location(c, x.v))
    ELSE Try(restricted_generate_code(x.kids[1], c), LAMBDA c1 :
         Try(restricted_generate_code(x.kids[2], c1), LAMBDA c2 :
         write_index_set(c2)))

\* Lhs::build_set
lhs_build_set(x, c) ==
    IF x.tag = "LhsId"
    THEN build_set(c, get_var_location(c, x.v))
    ELSE Try(restricted_generate_code(x.kids[2], c), LAMBDA c1 :
         Try(restricted_generate_code(x.kids[1], c1), LAMBDA c2 :
         write_index_set(c2)))

\* lhs_build_new_local storing to the local of that name when there is one.
lhs_build_new_local_Rebind(x, c) ==
    IF x.tag = "LhsId"
    THEN IF lookup_var(c, x.v).kind = "Local"
         THEN build_set(c, lookup_var(c, x.v))
         ELSE Bind(create_local(c, x.v), LAMBDA c1 :
              build_set(c1, VarLocal(c1.fb.nlocals - 1)))
    ELSE Err(c, "build_new_local: Unexpected lvalue")

\* Lhs::build_new_local
lhs_build_new_local(x, c) ==
    IF x.tag = "LhsId"
    THEN Bind(create_local(c, x.v), LAMBDA c1 :
         build_set(c1, VarLocal(c1.fb.nlocals - 1)))
    ELSE Err(c, "build_new_local: Unexpected lvalue")

\* Stmt::Set: the loop over the pairs.
SetPairs(lhs, exprs, i, c) ==
    IF i > Len(lhs) THEN c
    ELSE Try(restricted_generate_code(exprs[i], c), LAMBDA c1 :
         Try(lhs_build_set(lhs[i], c1), LAMBDA c2 :
         SetPairs(lhs, exprs, i + 1, c2)))

\* StmtSet with the length check made only after the pairs both lists have.
StmtSet_CheckLate(s, c) ==
    LET lhs == s.kids[1].kids
        exprs == s.kids[2].kids
        m == IF Len(lhs) < Len(exprs) THEN Len(lhs) ELSE Len(exprs)
    IN Try(SetPairs(SubSeq(lhs, 1, m), SubSeq(exprs, 1, m), 1, c), LAMBDA c1 :
       IF Len(lhs) # Len(exprs) THEN Err(c1, "Set: lhs & exprs length mismatch")
       ELSE c1)

StmtSet(s, c) ==
    LET lhs == s.kids[1].kids
        exprs == s.kids[2].kids
    IN IF Len(lhs) # Len(exprs) THEN Err(c, "Set: lhs & exprs length mismatch")
       ELSE SetPairs(lhs, exprs, 1, c)

\* Stmt::Local: the loop over the pairs.
LocalPairs(lhs, exprs, i, c) ==
    IF i > Len(lhs) THEN c
    ELSE Try(restricted_generate_code(exprs[i], c), LAMBDA c1 :
         Try(lhs_build_new_local(lhs[i], c1), LAMBDA c2 :
         LocalPairs(lhs, exprs, i + 1, c2)))

StmtLocal(s, c) ==
    LET lhs == s.kids[1].kids
        exprs == s.kids[2].kids
    IN IF Len(lhs) # Len(exprs) THEN Err(c, "Local: lhs & exprs length mismatch")
       ELSE LocalPairs(lhs, exprs, 1, c)

\* WhileEpilogue with the two targets of the conditional branch exchanged.
WhileEpilogue_Swapped(c, expr_check_bb_id, break_point_bb_id, body_begin_bb_id) ==
    Bind(Push(c, OpA("Branch", expr_check_bb_id)), LAMBDA c1 :
    LET end_bb_id == c1.fb.current_basic_block + 1 IN
    Bind(move_forward(c1), LAMBDA c2 :
    Bind(PushAt(c2, break_point_bb_id, OpA("Branch", end_bb_id)), LAMBDA c3 :
    PushAt(c3, expr_check_bb_id, OpAB("ConditionalBranch", end_bb_id, body_begin_bb_id)))))

\* Stmt::While: the part after the body has been lowered without error.
WhileEpilogue(c, expr_check_bb_id, break_point_bb_id, body_begin_bb_id) ==
    Bind(Push(c, OpA("Branch", expr_check_bb_id)), LAMBDA c1 :
    LET end_bb_id == c1.fb.current_basic_block + 1 IN
    Bind(move_forward(c1), LAMBDA c2 :
    Bind(PushAt(c2, break_point_bb_id, OpA("Branch", end_bb_id)), LAMBDA c3 :
    PushAt(c3, expr_check_bb_id, OpAB("ConditionalBranch", body_begin_bb_id, end_bb_id)))))

\* Stmt::While: the body under its loop-control context.
WhileBody(blk, c, break_point_bb_id, expr_check_bb_id) ==
    Bind(block_unrestricted_generate_code(blk,
             with_lci_enter(c, LoopControlInfo(break_point_bb_id, expr_check_bb_id))),
         LAMBDA r : with_lci_exit(r))

\* Stmt::While: the closure handed to fb.scoped.
WhileClosure(s, c) ==
    LET expr == s.kids[1]
        blk == s.kids[2]
        expr_check_bb_id == c.fb.current_basic_block + 1
    IN Bind(move_forward(Push(c, OpA("Branch", expr_check_bb_id))), LAMBDA c1 :
       Try(restricted_generate_code(expr, c1), LAMBDA c2 :
       LET break_point_bb_id == c2.fb.current_basic_block + 1 IN
       Bind(move_forward(c2), LAMBDA c3 :
       LET body_begin_bb_id == c3.fb.current_basic_block + 1 IN
       Bind(move_forward(c3), LAMBDA c4 :
       Try(WhileBody(blk, c4, break_point_bb_id, expr_check_bb_id), LAMBDA c5 :
       WhileEpilogue(c5, expr_check_bb_id, break_point_bb_id, body_begin_bb_id))))))

\* StmtWhile returning the closure's error before the scope is popped.
StmtWhile_EarlyReturn(s, c) ==
    Try(WhileClosure(s, scoped_enter(c)), LAMBDA r : scoped_exit(r))

StmtWhile(s, c) == Bind(WhileClosure(s, scoped_enter(c)), LAMBDA r : scoped_exit(r))

\* Stmt::Call
StmtCall(s, c) ==
    Try(restricted_generate_code(Node("Call", s.kids), c), LAMBDA c1 : Push(c1, Op("Pop")))

\* StmtReturn lowering the first of several values and dropping the rest.
StmtReturn_Truncate(s, c) ==
    LET v == s.kids[1].kids
    IN IF Len(v) = 0
       THEN move_forward(Push(Push(c, Op("LoadNull")), Op("Return")))
       ELSE Try(restricted_generate_code(v[1], c), LAMBDA c1 :
            move_forward(Push(c1, Op("Return"))))

\* StmtReturn staying in the block it returns from.
StmtReturn_SameBlock(s, c) ==
    LET v == s.kids[1].kids
    IN IF Len(v) = 0
       THEN Push(Push(c, Op("LoadNull")), Op("Return"))
       ELSE IF Len(v) = 1
       THEN Try(restricted_generate_code(v[1], c), LAMBDA c1 : Push(c1, Op("Return")))
       ELSE Err(c, "Multiple return values is not supported for now")

\* Stmt::Return
StmtReturn(s, c) ==
    LET v == s.kids[1].kids
    IN IF Len(v) = 0
       THEN move_forward(Push(Push(c, Op("LoadNull")), Op("Return")))
       ELSE IF Len(v) = 1
       THEN Try(restricted_generate_code(v[1], c), LAMBDA c1 :
            move_forward(Push(c1, Op("Return"))))
       ELSE Err(c, "Multiple return values is not supported for now")

\* StmtOther skipping the statement without an error.
StmtOther_Skip(s, c) == c

\* The catch-all arm of the match on Stmt.
StmtOther(s, c) == Err(c, "Not implemented")

\* impl UnrestrictedGenerateCode for Stmt
StmtArms(s, c) ==
    CASE s.tag = "Do" -> BlockStatements(s.kids[1].kids, 1, c)
      [] s.tag = "Set" -> StmtSet(s, c)
      [] s.tag = "While" -> StmtWhile(s, c)
      [] s.tag = "Local" -> StmtLocal(s, c)
      [] s.tag = "CallStmt" -> StmtCall(s, c)
      [] s.tag = "Return" -> StmtReturn(s, c)
      [] OTHER -> StmtOther(s, c)

unrestricted_generate_code(s, c) ==
    Bind(Enter(c, s), LAMBDA c0 :
    Bind(StmtArms(s, c0), LAMBDA r : Exit(r, s, Len(c0.log))))

\* ExprBinary leaving out the operator's opcode.
ExprBinary_NoOperator(e, c, op) ==
    Try(restricted_generate_code(e.kids[1], c), LAMBDA c1 :
    Try(restricted_generate_code(e.kids[2], c1), LAMBDA c2 :
    Push(c2, Op("Rotate2"))))

\* The arms of the fourteen arithmetic/comparison/concatenation variants, and Pair.
ExprBinary(e, c, op) ==
    Try(restricted_generate_code(e.kids[1], c), LAMBDA c1 :
    Try(restricted_generate_code(e.kids[2], c1), LAMBDA c2 :
    Push(Push(c2, Op("Rotate2")), op)))

\* Expr::Function
RECURSIVE ArgNames(_, _)
ArgNames(vlhs, i) ==
    IF i > Len(vlhs) THEN <<>> ELSE <<vlhs[i].v>> \o ArgNames(vlhs, i + 1)

\* ExprFunction lowering the body with the enclosing function's builder.
ExprFunction_SameBuilder(e, c) ==
    LET vlhs == e.kids[1].kids
        blk == e.kids[2]
    IN IF \E i \in 1..Len(vlhs) : vlhs[i].tag # "LhsId"
       THEN Err(c, "Expecting id in function signature")
       ELSE Bind(build_args_load(c, ArgNames(vlhs, 1), 1), LAMBDA c2 :
            Try(block_unrestricted_generate_code(blk, c2), LAMBDA c3 :
            write_function_load(register_function(c3), Len(c3.functions))))

ExprFunction(e, c) ==
    LET vlhs == e.kids[1].kids
        blk == e.kids[2]
    IN Bind(new_function(c), LAMBDA c1 :
       IF \E i \in 1..Len(vlhs) : vlhs[i].tag # "LhsId"
       THEN leave_function(Err(c1, "Expecting id in function signature"))
       ELSE Bind(build_args_load(c1, ArgNames(vlhs, 1), 1), LAMBDA c2 :
            Bind(block_unrestricted_generate_code(blk, c2), LAMBDA c3 :
            IF Failed(c3) THEN leave_function(c3)
            ELSE LET fn_id == Len(c3.functions)
                 IN write_function_load(leave_function(register_function(c3)), fn_id))))

\* Expr::Table: the loop over the elements.
TableElems(elems, i, c) ==
    IF i > Len(elems) THEN c
    ELSE Try(restricted_generate_code(elems[i], Push(c, Op("Dup"))), LAMBDA c1 :
         Bind(write_table_set(Push(c1, Op("Rotate2"))), LAMBDA c2 :
         TableElems(elems, i + 1, c2)))

ExprTable(e, c) ==
    Bind(write_table_create(c), LAMBDA c1 : TableElems(e.kids[1].kids, 1, c1))

\* Expr::Call: the loop over the arguments, then the rest of the arm.
CallArgs(args, i, c) ==
    IF i > Len(args) THEN c
    ELSE Try(restricted_generate_code(args[i], c), LAMBDA c1 : CallArgs(args, i + 1, c1))

ExprCall(e, c) ==
    LET target == e.kids[1]
        args == e.kids[2].kids
    IN Try(CallArgs(args, 1, c), LAMBDA c1 :
       Bind(Push(Push(c1, OpA("RotateReverse", Len(args))), Op("LoadNull")), LAMBDA c2 :
       Try(restricted_generate_code(target, c2), LAMBDA c3 :
       Push(c3, OpA("Call", Len(args))))))

\* Expr::Id
ExprId(e, c) ==
    LET found == lookup_var(c, e.v)
        v == IF found.kind = "None" THEN VarThis(e.v) ELSE found
    IN build_get(c, v)

\* Expr::Index: the key, then the target, then the index-load.
ExprIndex(e, c) ==
    Try(restricted_generate_code(e.kids[2], c), LAMBDA c1 :
    Try(restricted_generate_code(e.kids[1], c1), LAMBDA c2 :
    write_index_get(c2)))

\* Expr::Not
ExprNot(e, c) ==
    Try(restricted_generate_code(e.kids[1], c), LAMBDA c1 : Push(c1, Op("Not")))

\* Expr::Dots
ExprDots(e, c) == Err(c, "Dots: Not implemented")

\* impl RestrictedGenerateCode for Expr
ExprArms(e, c) ==
    CASE e.tag = "Nil" -> Push(c, Op("LoadNull"))
      [] e.tag = "Boolean" -> Push(c, OpS("LoadBool", e.v))
      [] e.tag = "Number" -> Push(c, OpS("LoadFloat", e.v))
      [] e.tag = "String" -> Push(c, OpS("LoadString", e.v))
      [] e.tag = "Function" -> ExprFunction(e, c)
      [] e.tag = "Table" -> ExprTable(e, c)
      [] e.tag \in Range(ArithTags) \ {"Concat"} -> ExprBinary(e, c, Op(ArithOpCode(e.tag)))
      [] e.tag = "Concat" -> ExprBinary(e, c, Op("Concat"))
      [] e.tag = "Not" -> ExprNot(e, c)
      [] e.tag = "Call" -> ExprCall(e, c)
      [] e.tag = "Pair" -> ExprBinary(e, c, Op("PairCreate"))
      [] e.tag = "Id" -> ExprId(e, c)
      [] e.tag = "Index" -> ExprIndex(e, c)
      [] e.tag = "Dots" -> ExprDots(e, c)

restricted_generate_code(e, c) ==
    Bind(Enter(c, e), LAMBDA c0 :
    Bind(ExprArms(e, c0), LAMBDA r : Exit(r, e, Len(c0.log))))

(***************************************************************************)
(* Inputs                                                                   *)
(***************************************************************************)
A == Id("a")
B == Number("2")
X == Id("x")
T == Id("t")
Cond == Binary("Lt", X, Number("10"))
SetX == Set(<<LhsId("x")>>, <<Binary("Add", X, Number("1"))>>)
SetTK == Set(<<LhsId("y"), LhsIndex(T, String("k"))>>, <<Number("1"), Index(T, X)>>)
FnId == Function(<<LhsId("p")>>, Block(<<Return(<<Id("p")>>)>>))
FnLoop == Function(<<>>, Block(<<While(X, Block(<<CallStmt(Id("f"), <<>>)>>)), Return(<<>>)>>))
DotsDeep == Binary("Add", Number("1"), Binary("Sub", Not(Dots), Number("3")))

\* The statements the driver may lower, one after the other, into one function.
StmtPool == <<
    \* Set: matching and mismatching lengths
    SetX,
    SetTK,
    Set(<<LhsId("x")>>, <<>>),
    Set(<<LhsId("x")>>, <<Number("1"), Number("2")>>),
    Set(<<>>, <<Call(Id("f"), <<>>)>>),
    Set(<<LhsId("x"), LhsId("y")>>, <<Number("1"), DotsDeep>>),
    \* Local
    Local(<<LhsId("x")>>, <<Binary("Add", Number("1"), Number("2"))>>),
    Local(<<LhsId("x"), LhsId("x")>>, <<Table(<<Number("1"), Number("2")>>), X>>),
    Local(<<LhsId("x")>>, <<>>),
    Local(<<LhsId("x"), LhsId("y")>>, <<FnId>>),
    Local(<<LhsIndex(T, X)>>, <<Number("1")>>),
    \* Return
    Return(<<>>),
    Return(<<Number("5")>>),
    Return(<<Number("1"), Number("2")>>),
    Return(<<X, FnId, Dots>>),
    Return(<<DotsDeep>>),
    Return(<<FnLoop>>),
    \* Call
    CallStmt(Id("f"), <<X, Nil>>),
    CallStmt(Id("f"), <<Dots, X>>),
    \* Do
    Do(<<>>),
    Do(<<SetX, Return(<<>>), SetX>>),
    Do(<<SetX, Set(<<LhsId("x")>>, <<>>), SetTK>>),
    \* While
    While(X, Block(<<>>)),
    While(Cond, Block(<<SetX>>)),
    While(Cond, Block(<<Local(<<LhsId("x")>>, <<X>>), Return(<<X>>)>>)),
    While(Boolean("true"), Block(<<Break>>)),
    While(Cond, Block(<<SetX, Break, SetX>>)),
    While(Cond, Block(<<While(Id("y"), Block(<<SetX>>)), SetTK>>)),
    While(Cond, Block(<<SetX, While(Id("y"), Block(<<While(A, Block(<<>>))>>))>>)),
    While(Cond, Block(<<While(Id("y"), Block(<<SetX, Break>>)), SetX>>)),
    While(Cond, Block(<<While(Id("y"), Block(<<Local(<<LhsId("x")>>, <<>>)>>)), SetX>>)),
    While(Dots, Block(<<SetX>>)),
    While(Cond, Block(<<While(DotsDeep, Block(<<>>))>>)),
    While(Call(FnLoop, <<>>), Block(<<SetX>>)),
    \* The forms that have no arm of their own
    Repeat(Block(<<SetX>>), Cond),
    If(<<Tuple(Cond, Block(<<SetX>>))>>, Some(Block(<<Return(<<>>)>>))),
    Fornum(LhsId("i"), Number("1"), Number("3"), None, Block(<<SetX>>)),
    Forin(<<LhsId("k")>>, <<Call(Id("pairs"), <<T>>)>>, Block(<<SetX>>)),
    Localrec(LhsId("f"), FnId),
    Goto("l"),
    Label("l"),
    Break
>>

(***************************************************************************)
(* The compilation of a function body: the statements of the body are       *)
(* lowered in order into one function builder, until one fails.             *)
(***************************************************************************)
Init ==
    /\ cg = NewContext
    /\ prev = NewContext
    /\ last = NoNode
    /\ n = 0
    /\ uv = <<>>
    /\ pc = "done"

LowerStmt ==
    /\ n < MaxStmts
    /\ ~Failed(cg)
    /\ \E i \in 1..Len(StmtPool) :
          /\ last' = StmtPool[i]
          /\ cg' = unrestricted_generate_code(StmtPool[i], cg)
    /\ prev' = cg
    /\ n' = n + 1
    /\ UNCHANGED <<uv, pc>>

Next == LowerStmt

Spec == Init /\ [][Next]_vars

(***************************************************************************)
(* Properties.  They speak of the lowering call made by the last step: of   *)
(* prev and cg, the context before and after it, and of the entries the     *)
(* call added to the log (which cover the calls nested in it).              *)
(***************************************************************************)
NewIdx == (Len(prev.log) + 1)..Len(cg.log)
Ev(i) == cg.log[i]
Snapshot(e) == <<e.f, e.cur, e.nbb, e.nops, e.nlocals, e.lci, e.scopes, e.nfn>>
IsEnter(i, tags) == Ev(i).ev = "enter" /\ Ev(i).node.tag \in tags
IsOp(i, f, bb, op) == Ev(i).ev = "op" /\ Ev(i).f = f /\ Ev(i).bb = bb /\ Ev(i).op = op
SameBuilders(c1, c2) ==
    /\ c1.fb = c2.fb
    /\ c1.outer = c2.outer
    /\ c1.functions = c2.functions
    /\ c1.nbuilders = c2.nbuilders

\* The opcodes appended to the blocks of function f by log entries lo..hi, in order.
RECURSIVE OpsIn(_, _, _)
OpsIn(lo, hi, f) ==
    IF lo > hi THEN <<>>
    ELSE (IF Ev(lo).ev = "op" /\ Ev(lo).f = f THEN <<Ev(lo).op>> ELSE <<>>) \o OpsIn(lo + 1, hi, f)

Mismatch(s) == s.tag \in {"Set", "Local"} /\ Len(s.kids[1].kids) # Len(s.kids[2].kids)

\* Every lowering call that has started has returned.
CallsReturn ==
    \A i \in NewIdx : Ev(i).ev = "enter" =>
        /\ Ev(i).ret \in (i + 1)..Len(cg.log)
        /\ Ev(Ev(i).ret).ev = "exit"
        /\ Ev(Ev(i).ret).of = i
        /\ Ev(Ev(i).ret).f = Ev(i).f

\* C1: a Set or Local whose target and value lists differ in length returns an
\* error, and the call makes no builder call at all: no opcode, no local, no
\* block; the builders are as they were before the call.
C1_LengthMismatchNoEffect ==
    /\ \A i \in NewIdx : (Ev(i).ev = "enter" /\ Mismatch(Ev(i).node)) =>
          /\ Ev(i + 1).ev = "error"
          /\ Ev(i).ret = i + 2
          /\ Ev(i + 2).err \in {"Set: lhs & exprs length mismatch",
                                "Local: lhs & exprs length mismatch"}
          /\ Snapshot(Ev(i + 2)) = Snapshot(Ev(i))
    /\ Mismatch(last) => Failed(cg) /\ SameBuilders(cg, prev)

\* A Set or Local with targets and values, but not as many of each, lowered as the
\* second statement of a function that already has code.
C1_Witness ==
    /\ n = 2
    /\ Mismatch(last)
    /\ Failed(cg)
    /\ CountOps(prev.fb.basic_blocks, 1) > 0
    /\ Len(last.kids[1].kids) > 0
    /\ Len(last.kids[2].kids) > 0

\* What the log holds for the Return statement whose lowering starts at entry i.
ReturnAt(i) ==
    LET v == Ev(i).node.kids[1].kids
        f == Ev(i).f
        cur == Ev(i).cur
        j == Ev(i).ret
    IN CASE Len(v) = 0 ->
              /\ IsOp(i + 1, f, cur, Op("LoadNull"))
              /\ IsOp(i + 2, f, cur, Op("Return"))
              /\ Ev(i + 3).ev = "move_forward"
              /\ j = i + 4
              /\ Ev(j).err = ""
              /\ Ev(j).nops = Ev(i).nops + 2
         [] Len(v) = 1 ->
              /\ IsEnter(i + 1, {v[1].tag})
              /\ Ev(i + 1).node = v[1]
              /\ LET k == Ev(i + 1).ret
                 IN IF Ev(k).err # ""
                    THEN j = k + 1 /\ Ev(j).err = Ev(k).err
                    ELSE /\ IsOp(k + 1, f, cur, Op("Return"))
                         /\ Ev(k + 2).ev = "move_forward"
                         /\ j = k + 3
                         /\ Ev(j).err = ""
                         /\ Ev(j).nops = Ev(k).nops + 1
         [] OTHER ->
              /\ Ev(i + 1).ev = "error"
              /\ j = i + 2
              /\ Ev(j).err = "Multiple return values is not supported for now"
              /\ Snapshot(Ev(j)) = Snapshot(Ev(i))

\* C2: Return with no value appends LoadNull, Return to the current block; with
\* one value the value's code and then Return; with more it returns the
\* unsupported-feature error, appends nothing and lowers none of the values.
C2_ReturnLowering ==
    /\ \A i \in NewIdx : IsEnter(i, {"Return"}) => ReturnAt(i)
    /\ (last.tag = "Return" /\ ~Failed(cg)) =>
          LET b == prev.fb.current_basic_block + 1
              i == Len(prev.log) + 1
          IN /\ cg.fb.basic_blocks =
                   Append([prev.fb.basic_blocks EXCEPT ![b] = @ \o OpsIn(i, Len(cg.log), prev.fb.id)],
                          <<>>)
             /\ OpsIn(i, Len(cg.log), prev.fb.id) =
                   IF Len(last.kids[1].kids) = 0 THEN <<Op("LoadNull"), Op("Return")>>
                   ELSE OpsIn(i + 1, Ev(i + 1).ret, prev.fb.id) \o <<Op("Return")>>
    /\ (last.tag = "Return" /\ Len(last.kids[1].kids) > 1) => Failed(cg) /\ SameBuilders(cg, prev)

\* A several-valued Return rejected after the function has seen a Return without
\* a value and one with a value.
C2_Witness ==
    /\ last.tag = "Return"
    /\ Len(last.kids[1].kids) > 1
    /\ Failed(cg)
    /\ \E i \in 1..Len(prev.log) :
          /\ prev.log[i].ev = "enter"
          /\ prev.log[i].node.tag = "Return"
          /\ Len(prev.log[i].node.kids[1].kids) = 1
    /\ \E i \in 1..Len(prev.log) :
          /\ prev.log[i].ev = "enter"
          /\ prev.log[i].node.tag = "Return"
          /\ Len(prev.log[i].node.kids[1].kids) = 0

\* The blocks of function f as they are now: of the builder being written to,
\* or of a function already in the module's table.
BlocksOf(f) ==
    IF f = cg.fb.id THEN cg.fb.basic_blocks
    ELSE IF \E k \in 1..Len(cg.functions) : cg.functions[k].id = f
    THEN cg.functions[CHOOSE k \in 1..Len(cg.functions) : cg.functions[k].id = f].basic_blocks
    ELSE <<>>

HasBreak(blk) == \E k \in 1..Len(statements(blk)) : statements(blk)[k].tag = "Break"

\* C4: a While whose body contains a Break lowers without error, and the Break
\* emits a branch to the after-loop block, which is neither the condition-check
\* block nor the body-entry block.
C4_BreakInWhileLowers ==
    \A i \in NewIdx : (IsEnter(i, {"While"}) /\ HasBreak(Ev(i).node.kids[2])) =>
        LET j == Ev(i).ret
            check == Ev(i).cur + 1
            body == Ev(i).cur + 3
            after == Ev(j).cur
        IN /\ Ev(j).err = ""
           /\ after \notin {check, body}
           /\ \E b \in (i + 1)..(j - 1) :
                 /\ IsEnter(b, {"Break"})
                 /\ \E k \in (b + 1)..(Ev(b).ret - 1) :
                       IsOp(k, Ev(i).f, Ev(b).cur, OpA("Branch", after))

\* C5: when the lowering of a While returns, with or without an error, the
\* scope stack and the loop-control stack are what they were when it started.
C5_WhileRestoresStacks ==
    /\ \A i \in NewIdx : IsEnter(i, {"While"}) =>
          /\ Ev(Ev(i).ret).scopes = Ev(i).scopes
          /\ Ev(Ev(i).ret).lci = Ev(i).lci
    /\ last.tag = "While" =>
          /\ cg.fb.scopes = prev.fb.scopes
          /\ cg.fb.lci_stack = prev.fb.lci_stack
    /\ cg.fb.lci_stack = <<>>
    /\ Len(cg.fb.scopes) = 1

\* A While that failed in the body of a loop nested in it, two loop-control
\* contexts and two scopes deep, in a function that has a local of its own.
C5_Witness ==
    /\ last.tag = "While"
    /\ Failed(cg)
    /\ Len(prev.fb.scopes[1]) > 0
    /\ \E i \in NewIdx :
          /\ Ev(i).ev = "error"
          /\ Len(Ev(i).lci) = 2
          /\ Len(Ev(i).scopes) = 3

\* Number of lowering calls in progress after log entry i.
Depth(i) ==
    Cardinality({k \in 1..i : Ev(k).ev = "enter"}) - Cardinality({k \in 1..i : Ev(k).ev = "exit"})

\* C6: an error ends the lowering at once: after it is constructed no lowering
\* call starts and no builder call is made (no opcode, block, local or
\* function); every call that was in progress returns that same error.
C6_ErrorsPropagate ==
    /\ \A i \in NewIdx : Ev(i).ev = "error" =>
          /\ \A k \in (i + 1)..Len(cg.log) : Ev(k).ev = "exit" /\ Ev(k).err = Ev(i).err
          /\ Len(cg.log) - i = Depth(i)
          /\ cg.err = Ev(i).err
          /\ Ev(i).err # ""
    /\ Failed(cg) => \E i \in NewIdx : Ev(i).ev = "error"
    /\ Failed(cg) => \A k \in NewIdx : Ev(k).ev = "enter" => Ev(Ev(k).ret).err = cg.err \/ Ev(Ev(k).ret).err = ""

\* A Dots three expressions deep in the condition of a loop nested in a loop,
\* with a sibling expression and a sibling statement after it.
C6_Witness ==
    /\ Failed(cg)
    /\ cg.err = "Dots: Not implemented"
    /\ \E i \in NewIdx :
          /\ Ev(i).ev = "error"
          /\ Depth(i) >= 6
          /\ Len(Ev(i).lci) >= 1
          /\ Ev(i).nops > 0

\* The variants of Stmt the match has no arm for.
OtherForms == {"Repeat", "If", "Fornum", "Forin", "Localrec", "Goto", "Label", "Break"}

\* C7: a statement of a form without an arm of its own returns the
\* not-implemented error and makes no builder call; cursor, blocks, scopes and
\* loop-control contexts stay as they were.
C7_OtherFormsNotImplemented ==
    /\ \A i \in NewIdx : IsEnter(i, OtherForms) =>
          /\ Ev(i + 1).ev = "error"
          /\ Ev(i).ret = i + 2
          /\ Ev(i + 2).err = "Not implemented"
          /\ Snapshot(Ev(i + 2)) = Snapshot(Ev(i))
    /\ last.tag \in OtherForms => Failed(cg) /\ SameBuilders(cg, prev)

\* A Repeat lowered as the second statement of a function that has code.
C7_Witness ==
    /\ n = 2
    /\ last.tag = "Repeat"
    /\ Failed(cg)
    /\ CountOps(prev.fb.basic_blocks, 1) > 0

\* What the log and the blocks hold for the While whose lowering starts at entry i.
WhileLayoutAt(i) ==
    LET j == Ev(i).ret
        f == Ev(i).f
        P == Ev(i).cur
        check == P + 1
        brk == P + 2
        body == P + 3
        after == Ev(j).cur
        blocks == BlocksOf(f)
        d == Len(Ev(i).lci)
        condExit == Ev(i + 3).ret
    IN /\ check < brk /\ brk < body /\ body < after
       /\ after < Ev(j).nbb
       /\ check >= Ev(i).nbb
       /\ Ev(j).nbb >= Ev(i).nbb + 4
       /\ after < Len(blocks)
       \* P ends with Branch(check)
       /\ IsOp(i + 1, f, P, OpA("Branch", check))
       /\ blocks[P + 1][Len(blocks[P + 1])] = OpA("Branch", check)
       \* the check block: the condition's code, then the conditional branch
       /\ IsEnter(i + 3, {Ev(i).node.kids[1].tag})
       /\ Ev(i + 3).cur = check
       /\ blocks[check + 1] = OpsIn(i + 3, condExit, f)
                                \o <<OpAB("ConditionalBranch", body, after)>>
       \* the break-target block
       /\ blocks[brk + 1] = <<OpA("Branch", after)>>
       \* the block current when the body finishes
       /\ blocks[after][Len(blocks[after])] = OpA("Branch", check)
       /\ IsOp(j - 4, f, after - 1, OpA("Branch", check))
       \* the loop-control context during the body
       /\ Ev(condExit + 1).ev = "move_forward" /\ Ev(condExit + 1).bb = brk
       /\ Ev(condExit + 2).ev = "move_forward" /\ Ev(condExit + 2).bb = body
       /\ \A k \in (condExit + 3)..(j - 5) : Ev(k).f = f =>
             /\ Len(Ev(k).lci) > d
             /\ Ev(k).lci[d + 1] = LoopControlInfo(brk, check)
             /\ Ev(k).cur >= body
       /\ \A k \in (i + 1)..condExit : Ev(k).f = f => Ev(k).lci = Ev(i).lci

\* C10: the layout a successful While leaves.  P is the block current at the
\* start; check, break-target and body-entry are the three blocks after P,
\* after-loop the block current at the end.
C10_WhileLayout ==
    /\ \A i \in NewIdx : (IsEnter(i, {"While"}) /\ Ev(Ev(i).ret).err = "") => WhileLayoutAt(i)
    /\ (last.tag = "While" /\ ~Failed(cg)) =>
          /\ Len(cg.fb.basic_blocks) >= Len(prev.fb.basic_blocks) + 4
          /\ cg.fb.current_basic_block = Len(cg.fb.basic_blocks) - 1
          /\ cg.fb.basic_blocks[cg.fb.current_basic_block + 1] = <<>>

\* A While lowered after another statement, with a loop nested in its body that
\* has a loop nested in its own.
C10_Witness ==
    /\ n = 2
    /\ last.tag = "While"
    /\ ~Failed(cg)
    /\ prev.fb.current_basic_block > 0
    /\ \E i \in NewIdx : IsEnter(i, {"While"}) /\ Len(Ev(i).lci) = 2

\* Log entry i is the start of a call that lowers node x in function f / is the
\* opcode named op pushed to a block of function f.
Lowers(i, x, f) == i <= Len(cg.log) /\ Ev(i).ev = "enter" /\ Ev(i).node = x /\ Ev(i).f = f
Emits(i, ops, f) == i <= Len(cg.log) /\ Ev(i).ev = "op" /\ Ev(i).op.op \in ops /\ Ev(i).f = f
Succeeded(i) == Ev(i).ev = "enter" /\ Ev(i).ret > i /\ Ev(Ev(i).ret).err = ""
StoreOps == {"StoreLocal", "StoreUpvalue", "StoreThis"}

\* From log entry p on, the pairs i.. of a Set are lowered one after the other,
\* each as its value and then its store, and the call returns at entry end.
RECURSIVE SetPairsAt(_, _, _, _, _, _)
SetPairsAt(lhs, exprs, i, p, end, f) ==
    IF i > Len(lhs) THEN p = end
    ELSE /\ Lowers(p, exprs[i], f)
         /\ LET q == Ev(p).ret + 1
            IN IF lhs[i].tag = "LhsId"
               THEN /\ Emits(q, StoreOps, f)
                    /\ SetPairsAt(lhs, exprs, i + 1, q + 1, end, f)
               ELSE /\ Lowers(q, lhs[i].kids[2], f)
                    /\ Lowers(Ev(q).ret + 1, lhs[i].kids[1], f)
                    /\ Emits(Ev(Ev(q).ret + 1).ret + 1, {"IndexSet"}, f)
                    /\ SetPairsAt(lhs, exprs, i + 1, Ev(Ev(q).ret + 1).ret + 2, end, f)

\* The call started at log entry k lowers an Index read as key, base, index-load.
IndexReadAt(k) ==
    LET e == Ev(k).node
        f == Ev(k).f
    IN /\ Lowers(k + 1, e.kids[2], f)
       /\ Lowers(Ev(k + 1).ret + 1, e.kids[1], f)
       /\ Emits(Ev(Ev(k + 1).ret + 1).ret + 1, {"IndexGet"}, f)
       /\ Ev(k).ret = Ev(Ev(k + 1).ret + 1).ret + 2

\* C11: a Set with matching pairs that lowers without error emits, pair after
\* pair, the value expression and immediately after it the target's store (for
\* an index target: the key expression, the base expression, the index-store
\* opcode), so the store of a pair comes before the value of the next pair; an
\* Index read emits the key expression, the base expression, the index-load.
C11_SetPairOrder ==
    \A k \in NewIdx :
        /\ (IsEnter(k, {"Set"}) /\ Succeeded(k)) =>
               SetPairsAt(Ev(k).node.kids[1].kids, Ev(k).node.kids[2].kids, 1, k + 1,
                          Ev(k).ret, Ev(k).f)
        /\ (IsEnter(k, {"Index"}) /\ Succeeded(k)) => IndexReadAt(k)

\* After another statement: a Set of two pairs, an identifier target and then an
\* index target whose value is an Index read, lowered without error.
C11_Witness ==
    /\ n = 2
    /\ last = SetTK
    /\ ~Failed(cg)
    /\ \E k \in NewIdx : IsEnter(k, {"Index"}) /\ Succeeded(k)
    /\ \E k \in NewIdx : Ev(k).ev = "op" /\ Ev(k).op.op = "IndexSet"

\* The innermost binding of a name in a stack of scopes, as lookup_var finds it.
Innermost(scopes, k) == FindInScopes(scopes, k, Len(scopes))

\* From log entry p on, the pairs i.. of a Local are lowered one after the other
\* in function f, which had base locals when the statement started: the value,
\* with the locals of the pairs before it in scope and its own not yet; then a
\* new slot bound to the name in the innermost scope; then the store to that
\* slot.  The call returns at entry end.
RECURSIVE LocalPairsAt(_, _, _, _, _, _, _)
LocalPairsAt(lhs, exprs, i, p, end, f, base) ==
    IF i > Len(lhs) THEN p = end
    ELSE LET slot == base + i - 1
             q == Ev(p).ret + 1
         IN /\ Lowers(p, exprs[i], f)
            /\ Ev(p).nlocals = slot
            /\ (exprs[i].tag = "Id" /\ Innermost(Ev(p).scopes, exprs[i].v).kind = "Local") =>
                   /\ Emits(p + 1, {"LoadLocal"}, f)
                   /\ Ev(p + 1).op.a = Innermost(Ev(p).scopes, exprs[i].v).slot
                   /\ Ev(p + 1).op.a < slot
            /\ q <= Len(cg.log)
            /\ Ev(q).ev = "create_local" /\ Ev(q).node = lhs[i] /\ Ev(q).f = f
            /\ Ev(q).bb = slot /\ Ev(q).nlocals = slot + 1
            /\ Innermost(Ev(q).scopes, lhs[i].v) = VarLocal(slot)
            /\ Emits(q + 1, {"StoreLocal"}, f)
            /\ Ev(q + 1).op.a = slot
            /\ LocalPairsAt(lhs, exprs, i + 1, q + 2, end, f, base)

\* C12: a Local with matching pairs that lowers without error handles the
\* pairs in order, each as: the right-hand expression, then a fresh local slot
\* bound to the name (also when the name is already a local, whose slot is then
\* not stored to), then the store to the new slot; the i-th right-hand side
\* sees the locals of the pairs before it and not its own, so its own name
\* resolves to the previous binding.  A Local with a target that is not a
\* plain identifier fails.
C12_LocalShadows ==
    \A k \in NewIdx :
        (IsEnter(k, {"Local"}) /\ ~Mismatch(Ev(k).node)) =>
            LET lhs == Ev(k).node.kids[1].kids
                exprs == Ev(k).node.kids[2].kids
            IN /\ Succeeded(k) =>
                      LocalPairsAt(lhs, exprs, 1, k + 1, Ev(k).ret, Ev(k).f, Ev(k).nlocals)
               /\ (\E i \in 1..Len(lhs) : lhs[i].tag # "LhsId") => ~Succeeded(k)

\* `local x, x = {1, 2}, x` lowered without error into a function where x is
\* already a local: two new slots, the second right-hand side loading the first.
C12_Witness ==
    /\ n = 2
    /\ ~Failed(cg)
    /\ last.tag = "Local"
    /\ Len(last.kids[1].kids) = 2
    /\ last.kids[2].kids[2] = X
    /\ Innermost(prev.fb.scopes, "x").kind = "Local"
    /\ cg.fb.nlocals = prev.fb.nlocals + 2
    /\ \E k \in NewIdx : Emits(k, {"LoadLocal"}, 0) /\ Ev(k).op.a = prev.fb.nlocals

\* The opcodes that transfer control, and the blocks in which control leaves only
\* at the end: no such opcode before the last position.
ControlTransfers == {"Branch", "ConditionalBranch", "Return"}
EndsOnly(block) == \A j \in 1..(Len(block) - 1) : block[j].op \notin ControlTransfers
Terminated(block) == Len(block) > 0 /\ block[Len(block)].op \in ControlTransfers

\* C13: after a sequence of statement lowerings without error into one function
\* builder, no block of the function has a Branch, ConditionalBranch or Return
\* before its last opcode: a block has at most one of them, at its end; so it
\* is for the functions built from function literals on the way.
C13_BlocksEndOnce ==
    ~Failed(cg) =>
        /\ \A b \in 1..Len(cg.fb.basic_blocks) : EndsOnly(cg.fb.basic_blocks[b])
        /\ \A i \in 1..Len(cg.functions) :
               \A b \in 1..Len(cg.functions[i].basic_blocks) :
                   EndsOnly(cg.functions[i].basic_blocks[b])

\* After a Return: a While with a loop in its body, lowered without error; the
\* block of the Return, the check blocks and the break-target blocks of both
\* loops are terminated, and code follows in later blocks.
C13_Witness ==
    /\ n = 2
    /\ ~Failed(cg)
    /\ last.tag = "While"
    /\ \E b \in 1..Len(prev.fb.basic_blocks) :
           /\ Terminated(prev.fb.basic_blocks[b])
           /\ prev.fb.basic_blocks[b][Len(prev.fb.basic_blocks[b])].op = "Return"
    /\ \E i \in NewIdx : IsEnter(i, {"While"}) /\ Len(Ev(i).lci) = 1
    /\ Cardinality({b \in 1..Len(cg.fb.basic_blocks) :
                       /\ Terminated(cg.fb.basic_blocks[b])
                       /\ Len(cg.fb.basic_blocks[b]) > 1}) >= 3
    /\ Cardinality({b \in 1..Len(cg.fb.basic_blocks) :
                       cg.fb.basic_blocks[b] = <<OpA("Branch", b + 2)>>}) >= 1

(***************************************************************************)
(* Restricted lowering of expressions.  Each step lowers one expression     *)
(* into a function that already has a local, blocks and code: first a leaf, *)
(* then an expression that wraps the one lowered before (every variant of   *)
(* Expr around it, on either side).                                         *)
(***************************************************************************)
ExprLeaves == <<X, Dots>>

RECURSIVE BinaryWraps(_, _)
BinaryWraps(e, k) ==
    IF k > Len(ArithTags) THEN <<>>
    ELSE <<Binary(ArithTags[k], e, e)>> \o BinaryWraps(e, k + 1)

ExprWraps(e) ==
    BinaryWraps(e, 1) \o
    <<Binary("Add", e, Nil), Binary("Sub", String("s"), e),
      Pair(e, Boolean("true")), Pair(A, e), Index(e, B), Index(A, e), Not(e),
      Table(<<e>>), Table(<<A, e, B>>),
      Call(e, <<>>), Call(A, <<B, e, X>>),
      Function(<<LhsId("a")>>, Block(<<Return(<<e>>)>>)),
      Function(<<LhsId("a"), LhsIndex(T, X)>>, Block(<<Return(<<e>>)>>)),
      Function(<<>>, Block(<<While(e, Block(<<Return(<<A>>)>>)), SetX>>))>>

\* The builders after `local x = 1 + 2; while x < 10 do x = x + 1 end`, with a
\* log that starts afresh.
ExprStart ==
    Try(unrestricted_generate_code(
            Local(<<LhsId("x")>>, <<Binary("Add", Number("1"), Number("2"))>>), NewContext),
        LAMBDA c1 :
    Try(unrestricted_generate_code(While(Cond, Block(<<SetX>>)), c1),
        LAMBDA c2 : [c2 EXCEPT !.log = <<>>]))

InitExpr ==
    /\ cg = ExprStart
    /\ prev = ExprStart
    /\ last = NoNode
    /\ n = 0
    /\ uv = <<>>
    /\ pc = "build"

LowerExpr ==
    /\ n <= MaxDepth
    /\ LET inputs == IF n = 0 THEN ExprLeaves ELSE ExprWraps(last)
       IN \E k \in 1..Len(inputs) :
             /\ last' = inputs[k]
             /\ cg' = restricted_generate_code(inputs[k], ExprStart)
    /\ prev' = ExprStart
    /\ n' = n + 1
    /\ pc' = "done"
    /\ UNCHANGED uv

NextExpr == LowerExpr

SpecExpr == InitExpr /\ [][NextExpr]_vars

\* Net effect of an opcode on the height of the evaluation stack.
StackEffect(op) ==
    CASE op.op \in {"LoadNull", "LoadBool", "LoadFloat", "LoadString", "LoadFunction",
                    "LoadLocal", "LoadUpvalue", "LoadThis", "TableCreate", "Dup"} -> 1
      [] op.op \in {"Rotate2", "RotateReverse", "Not", "Branch"} -> 0
      [] op.op \in {"Add", "Sub", "Mul", "Div", "IntDiv", "Mod", "Pow", "Concat", "TestEq",
                    "TestNe", "TestLt", "TestGt", "TestLe", "TestGe", "PairCreate",
                    "IndexGet"} -> -1
      [] op.op = "TableSet" -> -2
      [] op.op = "Call" -> -(op.a + 1)
      [] op.op \in {"Pop", "StoreLocal", "StoreUpvalue", "StoreThis", "Return",
                    "ConditionalBranch"} -> -1
      [] op.op = "IndexSet" -> -3

RECURSIVE NetEffect(_, _)
NetEffect(ops, k) == IF k > Len(ops) THEN 0 ELSE StackEffect(ops[k]) + NetEffect(ops, k + 1)

\* C3: the opcodes a successful restricted lowering appends to its function
\* raise the evaluation stack by exactly one, for the expression and for every
\* expression nested in it.
C3_ExprPushesOne ==
    \A i \in NewIdx : (IsEnter(i, ExprTags) /\ Ev(Ev(i).ret).err = "") =>
        NetEffect(OpsIn(i, Ev(i).ret, Ev(i).f), 1) = 1

\* A binary operator whose two operands are binary operators over identifiers,
\* lowered without error.
C3_Witness ==
    /\ pc = "done"
    /\ ~Failed(cg)
    /\ n > 2
    /\ last.tag = "Mul"
    /\ last.kids[1].tag = "Concat"
    /\ last.kids[2].tag = "Concat"
    /\ last.kids[2].kids[2].tag = "Id"

\* C8: restricted lowering leaves the current block and the number of blocks of
\* its function as they were, and appends every opcode to that current block;
\* so does the lowering of every expression nested in it.
C8_ExprStaysInBlock ==
    /\ \A i \in NewIdx : IsEnter(i, ExprTags) =>
          LET j == Ev(i).ret
          IN /\ Ev(j).cur = Ev(i).cur
             /\ Ev(j).nbb = Ev(i).nbb
             /\ \A k \in (i + 1)..(j - 1) : Ev(k).f = Ev(i).f =>
                   /\ Ev(k).ev # "move_forward"
                   /\ Ev(k).cur = Ev(i).cur
                   /\ Ev(k).ev = "op" => Ev(k).bb = Ev(i).cur
    /\ pc = "done" =>
          LET b == prev.fb.current_basic_block + 1
          IN /\ cg.fb.current_basic_block = prev.fb.current_basic_block
             /\ cg.fb.basic_blocks =
                   [prev.fb.basic_blocks EXCEPT
                       ![b] = @ \o OpsIn(Len(prev.log) + 1, Len(cg.log), prev.fb.id)]

\* An expression lowered without error that holds a function literal whose body
\* has a loop: blocks were created, in the literal's own builder.
C8_Witness ==
    /\ pc = "done"
    /\ ~Failed(cg)
    /\ n > 2
    /\ last.tag = "Add"
    /\ \E i \in NewIdx : Ev(i).ev = "move_forward" /\ Ev(i).f # prev.fb.id
    /\ Len(cg.functions) > Len(prev.functions)

(***************************************************************************)
(* Used-variable analysis of one node.  Each step analyses a node: first a  *)
(* leaf, then a node that wraps the one analysed before (every variant of   *)
(* Expr and Stmt around it).                                                *)
(***************************************************************************)
Bb == Id("b")
UVLeaves == <<Nil, Dots, Boolean("true"), Number("1"), String("x"), X,
              Goto("x"), Label("x"), Break>>

RECURSIVE UVBinaryWraps(_, _)
UVBinaryWraps(e, k) ==
    IF k > Len(ArithTags) THEN <<>>
    ELSE <<Binary(ArithTags[k], e, Bb)>> \o UVBinaryWraps(e, k + 1)

\* Around an expression.
UVExprWraps(e) ==
    UVBinaryWraps(e, 1) \o
    <<Pair(A, e), Index(e, Bb), Not(e), Table(<<A, e, Bb>>), Call(e, <<A, Bb>>),
      Function(<<LhsId("p"), LhsId("q")>>, Block(<<Return(<<e>>)>>)),
      Set(<<LhsId("y"), LhsIndex(e, A)>>, <<Bb, e>>),
      While(e, Block(<<Break, Return(<<A>>)>>)),
      Repeat(Block(<<CallStmt(A, <<>>)>>), e),
      If(<<Tuple(e, Block(<<Return(<<A>>)>>)), Tuple(Bb, Block(<<>>))>>, Some(Block(<<Return(<<e>>)>>))),
      If(<<Tuple(e, Block(<<>>))>>, None),
      Fornum(LhsId("i"), e, A, Some(Bb), Block(<<Return(<<Id("i")>>)>>)),
      Fornum(LhsId("i"), A, e, None, Block(<<Label("l")>>)),
      Forin(<<LhsId("k"), LhsId("v")>>, <<e, A>>, Block(<<Return(<<Id("k")>>)>>)),
      Local(<<LhsId("y"), LhsId("y")>>, <<e, Id("y")>>),
      Localrec(LhsId("f"), e),
      Return(<<e, A>>),
      CallStmt(e, <<A, Bb>>)>>

\* Around a statement.
UVStmtWraps(s) ==
    <<Do(<<s, Return(<<Bb>>)>>),
      While(A, Block(<<s>>)),
      Repeat(Block(<<s, s>>), Bb),
      If(<<Tuple(A, Block(<<s>>))>>, Some(Block(<<s>>))),
      Fornum(LhsId("i"), A, Bb, None, Block(<<s>>)),
      Forin(<<LhsId("k")>>, <<A>>, Block(<<s>>)),
      Function(<<LhsId("x"), LhsId("p")>>, Block(<<s, Return(<<Id("p")>>)>>))>>

UVWraps(x) == IF x.tag \in ExprTags THEN UVExprWraps(x) ELSE UVStmtWraps(x)

InitUV ==
    /\ cg = NewContext
    /\ prev = NewContext
    /\ last = NoNode
    /\ n = 0
    /\ uv = <<>>
    /\ pc = "build"

Analyse ==
    /\ n <= MaxUVDepth
    /\ LET inputs == IF n = 0 THEN UVLeaves ELSE UVWraps(last)
       IN \E k \in 1..Len(inputs) :
             /\ last' = inputs[k]
             /\ uv' = get_used_vars(inputs[k])
    /\ n' = n + 1
    /\ pc' = "done"
    /\ UNCHANGED <<cg, prev>>

NextUV == Analyse

SpecUV == InitUV /\ [][NextUV]_vars

\* The names at the identifier nodes (Expr::Id, Lhs::Id) of a tree, in the order
\* of a left-to-right walk over the fields of each node.
RECURSIVE IdOccurrences(_)
RECURSIVE IdOccurrencesOfKids(_, _)
IdOccurrences(x) ==
    IF x.tag \in {"Id", "LhsId"} THEN <<x.v>> ELSE IdOccurrencesOfKids(x.kids, 1)
IdOccurrencesOfKids(kids, k) ==
    IF k > Len(kids) THEN <<>> ELSE IdOccurrences(kids[k]) \o IdOccurrencesOfKids(kids, k + 1)

\* C9: get_used_vars yields one entry for each identifier occurrence of the
\* node, parameters, local targets and the bodies of nested functions included,
\* duplicates kept, nothing subtracted, in left-to-right field order; a node
\* without identifiers yields the empty sequence.
C9_UsedVarsAreIdOccurrences ==
    pc = "done" => uv = IdOccurrences(last)

\* A function literal, around a statement, around an identifier that is also a
\* parameter of the literal: the name is reported once per occurrence.
C9_Witness ==
    /\ pc = "done"
    /\ n = 3
    /\ last.tag = "Function"
    /\ last.kids[2].kids[1].kids[1].tag = "If"
    /\ Cardinality({k \in 1..Len(uv) : uv[k] = "x"}) >= 3
    /\ Cardinality({k \in 1..Len(uv) : uv[k] = "p"}) = 2

=============================================================================
